---- MODULE Spec2Model ----
(***************************************************************************)
(* The three-stage request gate of the security-aware internal API:        *)
(* token validation (src/auth/oauth.py), capability authorization          *)
(* (src/auth/scopes.py) and abuse-aware rate limiting                      *)
(* (src/middleware/rate_limit.py), with the serving layer of               *)
(* src/main.py and src/routes/*.py that strings them together.             *)
(*                                                                         *)
(* Time is the reading of time.time() in whole seconds.  Penalty           *)
(* multipliers are Python floats (IEEE-754 doubles) in the code; here a    *)
(* multiplier is <<n, d, e>>: n/d, in lowest terms, is the rational the    *)
(* arithmetic would give were it exact, and e is the rounding error the    *)
(* double carries, in units of 1/(5 * 2^60), so that the double's value is *)
(* n/d + e/(5 * 2^60).  The denominators the code can produce are 2^j and  *)
(* 5 * 2^j; the model's bounds keep j below 23.                            *)
(***************************************************************************)
EXTENDS Integers, Sequences, FiniteSets, TLC

VARIABLES
    now,          \* current reading of the clock, seconds
    token_state,  \* RateLimiter._token_state: token_hash -> RateLimitState
    route_config, \* RateLimiter._route_config: route -> RouteConfig
    ret,          \* outcome of the last call made on the RateLimiter API
    pc,           \* stage the request in flight has reached
    req,          \* the request in flight: its credentials and its operation
    claims,       \* the TokenPayload get_current_token returned, if any
    resp,         \* the response sent for the request, if any
    trace,        \* the stages that ran for the request, in order
    events,       \* the records the request handed to the security logger
    tasks,        \* the coroutines on the event loop, each inside one limiter call
    running,      \* the coroutine that holds the event loop, or "none"
    serial        \* the rate table had the completed calls run one after another

vars ==
    <<now, token_state, route_config, ret, pc, req, claims, resp, trace, events,
      tasks, running, serial>>

limiter_vars == <<token_state, route_config, ret>>

loop_vars == <<tasks, running, serial>>

gate_vars == <<pc, req, claims, resp, trace, events, tasks, running, serial>>

(***************************************************************************)
(* Bounds of the model.                                                    *)
(***************************************************************************)
MaxPeriods == 3      \* decay intervals the clock runs through
MaxHalfWindows == 2  \* half-window clock readings at the start of each interval
MaxRequests == 3     \* timestamps kept per identity in the unit-level model
MaxMalformed == 6    \* malformed events counted per identity
MaxTasks == 2        \* coroutines calling the limiter concurrently
MaxDecays == 5       \* decay intervals a long penalty history runs through
MaxPair == 2         \* malformed events per identity where two identities are tracked

(***************************************************************************)
(* Program constants (class RateLimiter, RouteConfig).                     *)
(***************************************************************************)
DEFAULT_REQUESTS_PER_MINUTE == 100
DEFAULT_WINDOW_SECONDS == 60
MAX_MALFORMED_BEFORE_BLOCK == 5
PENALTY_DECAY_MINUTES == 10
ROUTE_DEFAULT_REQUESTS_PER_MINUTE == 60
ROUTE_DEFAULT_BURST_ALLOWANCE == 10
HTTP_429_TOO_MANY_REQUESTS == 429

MALFORMED_PENALTY_FACTOR == <<1, 2, 0>>   \* 0.5
PENALTY_FLOOR == <<1, 10, 32>>            \* 0.1: the nearest double is 0.1 + 2^-55 / 5
PENALTY_DECAY_STEP == <<1, 4, 0>>         \* 0.25
PENALTY_NONE == <<1, 1, 0>>               \* 1.0

(***************************************************************************)
(* Double-precision arithmetic on the multipliers.  A double in            *)
(* [2^q, 2^(q+1)) is a multiple of 2^(q-52), which is 5 * 2^(8+q) error    *)
(* units.  Sums are rounded to the nearest double, ties to the even one;   *)
(* products by a power of two are exact.                                   *)
(***************************************************************************)
RECURSIVE GCD(_, _)
GCD(a, b) == IF b = 0 THEN a ELSE GCD(b, a % b)

Rat(n, d) == LET g == GCD(n, d) IN <<n \div g, d \div g>>

RECURSIVE Pow2(_)
Pow2(k) == IF k <= 0 THEN 1 ELSE 2 * Pow2(k - 1)

\* 2^k modulo 5
Pow2Mod5(k) == Pow2(k % 4) % 5

RECURSIVE Log2(_)
Log2(d) == IF d <= 1 THEN 0 ELSE 1 + Log2(d \div 2)

\* j, for a denominator 2^j or 5 * 2^j
TwoExponent(d) == Log2(IF d % 5 = 0 THEN d \div 5 ELSE d)

RECURSIVE UlpExponent(_, _)
\* 8 + q for n/d in [2^q, 2^(q+1)), n/d < 2: the doubles there are 5 * 2^(8+q)
\* error units apart
UlpExponent(n, d) == IF n >= d THEN 8 ELSE UlpExponent(2 * n, d) - 1

\* the error of the double nearest to n/d + e units.  A value whose denominator
\* is a power of two has few bits and is a double itself.
RoundError(n, d, e) ==
    IF d % 5 # 0 THEN e
    ELSE LET t == UlpExponent(n, d)
             u == 5 * Pow2(t)
             k == 60 - TwoExponent(d) - t
             \* n/d in error units, modulo u and modulo 2 * u
             B == Pow2(t) * (((n % 5) * Pow2Mod5(k)) % 5)
             B2 == Pow2(t) * (2 * (((n % 5) * Pow2Mod5(k - 1)) % 5))
             R == (B + e) % u
             R2 == (B2 + e) % (2 * u)
         IN  IF 2 * R < u \/ (2 * R = u /\ R2 = R) THEN e - R ELSE e + (u - R)

\* x * y for y a power of two: exact
RMul(x, y) ==
    LET r == Rat(x[1] * y[1], x[2] * y[2])
    IN  <<r[1], r[2], (x[3] * y[1]) \div y[2]>>

\* x + y, rounded to the nearest double
RAdd(x, y) ==
    LET r == Rat(x[1] * y[2] + y[1] * x[2], x[2] * y[2])
    IN  <<r[1], r[2], RoundError(r[1], r[2], x[3] + y[3])>>

RLeq(x, y) ==
    \/ x[1] * y[2] < y[1] * x[2]
    \/ x[1] * y[2] = y[1] * x[2] /\ x[3] <= y[3]

RMax(x, y) == IF RLeq(x, y) THEN y ELSE x

RMin(x, y) == IF RLeq(x, y) THEN x ELSE y

RECURSIVE HalfUlpBelow(_)
\* half the distance between the doubles just below the integer N >= 1, in
\* error units: 5 * 2^(7+q) for N in (2^q, 2^(q+1)]
HalfUlpBelow(N) == IF N <= 1 THEN 5 * Pow2(6) ELSE 2 * HalfUlpBelow((N + 1) \div 2)

\* int(base * multiplier): the product rounded to the nearest double, then
\* truncated.  The rounded product is below the floor of the exact product
\* only when that product is an integer N and the double carries an error that
\* puts base * multiplier more than half an ulp below N.
IntOfProduct(base, x) ==
    LET p == base * x[1]
        N == p \div x[2]
    IN  IF /\ p % x[2] = 0
           /\ x[3] < 0
           /\ N >= 1
           /\ base * (-x[3]) > HalfUlpBelow(N)
        THEN N - 1
        ELSE N

Max(a, b) == IF a >= b THEN a ELSE b

Min(a, b) == IF a <= b THEN a ELSE b

(***************************************************************************)
(* The clock.  Operations happen at readings drawn from Instants: the      *)
(* start of each decay interval and the half-window readings after it.     *)
(***************************************************************************)
DecaySeconds == PENALTY_DECAY_MINUTES * 60

HalfWindow == DEFAULT_WINDOW_SECONDS \div 2

Instants ==
    { p * DecaySeconds + w * HalfWindow : p \in 1..MaxPeriods, w \in 0..MaxHalfWindows }

FirstInstant == CHOOSE t \in Instants : \A u \in Instants : t <= u

NextInstant(t) ==
    CHOOSE u \in Instants : u > t /\ \A v \in Instants : v > t => u <= v

(***************************************************************************)
(* Identities and routes the unit-level calls are made with.               *)
(***************************************************************************)
TokenHashes == {"h1"}

Routes == {"/metrics", "/users", "/test"}

(***************************************************************************)
(* RateLimitState and RouteConfig.                                         *)
(***************************************************************************)
RateLimitState(t) ==
    [requests |-> <<>>,
     penalty_multiplier |-> PENALTY_NONE,
     malformed_count |-> 0,
     last_reset |-> t]

RouteConfig(rpm, burst) ==
    [requests_per_minute |-> rpm, burst_allowance |-> burst]

\* get_rate_limiter(): a new RateLimiter with the two configured routes
StartupRouteConfig ==
    [r \in {"/metrics", "/users"} |->
        IF r = "/metrics" THEN RouteConfig(120, 20) ELSE RouteConfig(30, 5)]

\* RateLimiter() as get_rate_limiter() builds it
NewRateLimiter == [_token_state |-> <<>>, _route_config |-> StartupRouteConfig]

\* a cache_clear that leaves the cached singleton in place
MutCacheClearKeeps(cache) == cache

\* get_rate_limiter.cache_clear(): the lru_cache holding the singleton, emptied
cache_clear(cache) == {}

\* get_rate_limiter() under lru_cache(maxsize=1): the cached singleton, or a
\* new one when the cache is empty
get_rate_limiter(cache) ==
    IF cache = {} THEN NewRateLimiter ELSE CHOOSE limiter \in cache : TRUE

\* a table whose new records share the request list of a record already there
MutTouchSharesRequests(ts, h, t) ==
    IF h \in DOMAIN ts THEN ts
    ELSE ts @@ (h :> [RateLimitState(t) EXCEPT
                        !.requests = IF DOMAIN ts = {} THEN <<>>
                                     ELSE ts[CHOOSE g \in DOMAIN ts : TRUE].requests])

\* self._token_state[token_hash] on a defaultdict: creates the entry when absent
Touch(ts, h, t) ==
    IF h \in DOMAIN ts THEN ts ELSE ts @@ (h :> RateLimitState(t))

\* _get_effective_limit with the burst allowance left out of the base limit
Mut_get_effective_limit_NoBurst(st, cfg, route) ==
    LET rc == IF route \in DOMAIN cfg
              THEN cfg[route]
              ELSE RouteConfig(ROUTE_DEFAULT_REQUESTS_PER_MINUTE,
                               ROUTE_DEFAULT_BURST_ALLOWANCE)
        base_limit == Min(DEFAULT_REQUESTS_PER_MINUTE, rc.requests_per_minute)
        effective == IntOfProduct(base_limit, st.penalty_multiplier)
    IN  Max(1, effective)

_get_effective_limit(st, cfg, route) ==
    LET rc == IF route \in DOMAIN cfg
              THEN cfg[route]
              ELSE RouteConfig(ROUTE_DEFAULT_REQUESTS_PER_MINUTE,
                               ROUTE_DEFAULT_BURST_ALLOWANCE)
        base_limit == Min(DEFAULT_REQUESTS_PER_MINUTE,
                          rc.requests_per_minute + rc.burst_allowance)
        effective == IntOfProduct(base_limit, st.penalty_multiplier)
    IN  Max(1, effective)

\* pruning that keeps a timestamp exactly one window old
Mut_clean_old_requests_KeepsBoundary(st, t) ==
    LET cutoff == t - DEFAULT_WINDOW_SECONDS
    IN  [st EXCEPT !.requests = SelectSeq(@, LAMBDA x : x >= cutoff)]

_clean_old_requests(st, t) ==
    LET cutoff == t - DEFAULT_WINDOW_SECONDS
    IN  [st EXCEPT !.requests = SelectSeq(@, LAMBDA x : x > cutoff)]

\* a decay that catches up: one step for each of two elapsed intervals
Mut_maybe_decay_penalty_CatchesUp(st, t) ==
    IF t - st.last_reset >= 2 * PENALTY_DECAY_MINUTES * 60
    THEN [st EXCEPT
            !.penalty_multiplier =
                RMin(PENALTY_NONE,
                     RAdd(RMin(PENALTY_NONE, RAdd(@, PENALTY_DECAY_STEP)),
                          PENALTY_DECAY_STEP)),
            !.malformed_count = Max(0, @ - 2),
            !.last_reset = t]
    ELSE IF t - st.last_reset >= PENALTY_DECAY_MINUTES * 60
    THEN [st EXCEPT
            !.penalty_multiplier = RMin(PENALTY_NONE, RAdd(@, PENALTY_DECAY_STEP)),
            !.malformed_count = Max(0, @ - 1),
            !.last_reset = t]
    ELSE st

\* the decay step without its cap of 1.0
Mut_maybe_decay_penalty_NoCap(st, t) ==
    IF t - st.last_reset >= PENALTY_DECAY_MINUTES * 60
    THEN [st EXCEPT
            !.penalty_multiplier = RAdd(@, PENALTY_DECAY_STEP),
            !.malformed_count = Max(0, @ - 1),
            !.last_reset = t]
    ELSE st

\* (now - last_reset) / 60 >= PENALTY_DECAY_MINUTES
_maybe_decay_penalty(st, t) ==
    IF t - st.last_reset >= PENALTY_DECAY_MINUTES * 60
    THEN [st EXCEPT
            !.penalty_multiplier = RMin(PENALTY_NONE, RAdd(@, PENALTY_DECAY_STEP)),
            !.malformed_count = Max(0, @ - 1),
            !.last_reset = t]
    ELSE st

\* SecurityLogger._log: one structured record handed to the sink
Event(name, abuse_class, token_hash, reason, data) ==
    [event |-> name, abuse_class |-> abuse_class, token_hash |-> token_hash,
     reason |-> reason, data |-> data]

NoRaise == [raised |-> FALSE, status_code |-> 0, detail |-> "", headers |-> {}]

Raise(code, detail, headers) ==
    [raised |-> TRUE, status_code |-> code, detail |-> detail, headers |-> headers]

\* check_rate_limit refusing only above the limit: one request too many passes
MutCheckRateLimitOffByOne(ts, cfg, h, route, t) ==
    LET ts1 == Touch(ts, h, t)
        st == _maybe_decay_penalty(_clean_old_requests(ts1[h], t), t)
        effective_limit == _get_effective_limit(st, cfg, route)
    IN  IF Len(st.requests) > effective_limit
        THEN [table |-> [ts1 EXCEPT ![h] = st],
              log |-> <<Event("rate_limit.exceeded", "RATE_EXCEEDED", h, "",
                              [route |-> route, limit |-> effective_limit,
                               window_seconds |-> DEFAULT_WINDOW_SECONDS])>>,
              exc |-> Raise(HTTP_429_TOO_MANY_REQUESTS, "Rate limit exceeded",
                            {<<"Retry-After", ToString(DEFAULT_WINDOW_SECONDS)>>,
                             <<"X-RateLimit-Limit", ToString(effective_limit)>>,
                             <<"X-RateLimit-Remaining", "0">>})]
        ELSE [table |-> [ts1 EXCEPT ![h] = [st EXCEPT !.requests = Append(@, t)]],
              log |-> <<>>,
              exc |-> NoRaise]

\* check_rate_limit recording the request before it compares: a refused
\* request leaves its timestamp too
MutCheckRateLimitRecordsRefused(ts, cfg, h, route, t) ==
    LET ts1 == Touch(ts, h, t)
        st == _maybe_decay_penalty(_clean_old_requests(ts1[h], t), t)
        effective_limit == _get_effective_limit(st, cfg, route)
        recorded == [ts1 EXCEPT ![h] = [st EXCEPT !.requests = Append(@, t)]]
    IN  IF Len(st.requests) >= effective_limit
        THEN [table |-> recorded,
              log |-> <<Event("rate_limit.exceeded", "RATE_EXCEEDED", h, "",
                              [route |-> route, limit |-> effective_limit,
                               window_seconds |-> DEFAULT_WINDOW_SECONDS])>>,
              exc |-> Raise(HTTP_429_TOO_MANY_REQUESTS, "Rate limit exceeded",
                            {<<"Retry-After", ToString(DEFAULT_WINDOW_SECONDS)>>,
                             <<"X-RateLimit-Limit", ToString(effective_limit)>>,
                             <<"X-RateLimit-Remaining", "0">>})]
        ELSE [table |-> recorded, log |-> <<>>, exc |-> NoRaise]

\* check_rate_limit as a function of the table: the new table and what was raised
CheckRateLimit(ts, cfg, h, route, t) ==
    LET ts1 == Touch(ts, h, t)
        st == _maybe_decay_penalty(_clean_old_requests(ts1[h], t), t)
        effective_limit == _get_effective_limit(st, cfg, route)
    IN  IF Len(st.requests) >= effective_limit
        THEN [table |-> [ts1 EXCEPT ![h] = st],
              log |-> <<Event("rate_limit.exceeded", "RATE_EXCEEDED", h, "",
                              [route |-> route, limit |-> effective_limit,
                               window_seconds |-> DEFAULT_WINDOW_SECONDS])>>,
              exc |-> Raise(HTTP_429_TOO_MANY_REQUESTS, "Rate limit exceeded",
                            {<<"Retry-After", ToString(DEFAULT_WINDOW_SECONDS)>>,
                             <<"X-RateLimit-Limit", ToString(effective_limit)>>,
                             <<"X-RateLimit-Remaining", "0">>})]
        ELSE [table |-> [ts1 EXCEPT ![h] = [st EXCEPT !.requests = Append(@, t)]],
              log |-> <<>>,
              exc |-> NoRaise]

\* the penalty without its floor of 0.1
MutApplyMalformedPenaltyNoFloor(st) ==
    [st EXCEPT
        !.malformed_count = @ + 1,
        !.penalty_multiplier = RMul(@, MALFORMED_PENALTY_FACTOR)]

\* the penalty with the factor inverted: the multiplier is doubled, up to 1.0
MutApplyMalformedPenaltyInverted(st) ==
    [st EXCEPT
        !.malformed_count = @ + 1,
        !.penalty_multiplier = RMin(PENALTY_NONE, RMul(@, <<2, 1, 0>>))]

\* the penalty with the counter started over once the block threshold is passed
MutApplyMalformedPenaltyStartsOver(st) ==
    [st EXCEPT
        !.malformed_count = IF @ >= MAX_MALFORMED_BEFORE_BLOCK THEN 0 ELSE @ + 1,
        !.penalty_multiplier = RMax(PENALTY_FLOOR, RMul(@, MALFORMED_PENALTY_FACTOR))]

\* the penalty of record_malformed_request on one record
ApplyMalformedPenalty(st) ==
    [st EXCEPT
        !.malformed_count = @ + 1,
        !.penalty_multiplier = RMax(PENALTY_FLOOR, RMul(@, MALFORMED_PENALTY_FACTOR))]

RecordMalformedRequest(ts, h, reason, t) ==
    LET ts1 == Touch(ts, h, t)
        st == ApplyMalformedPenalty(ts1[h])
    IN  [table |-> [ts1 EXCEPT ![h] = st],
         log |-> <<Event("rate_limit.penalty", "MALFORMED", h, reason,
                         [penalty_multiplier |-> st.penalty_multiplier])>>,
         exc |-> IF st.malformed_count >= MAX_MALFORMED_BEFORE_BLOCK
                 THEN Raise(HTTP_429_TOO_MANY_REQUESTS,
                            "Temporarily blocked due to repeated malformed requests",
                            {<<"Retry-After", ToString(PENALTY_DECAY_MINUTES * 60)>>})
                 ELSE NoRaise]

\* get_remaining recording the read as a request, as check_rate_limit does
MutGetRemainingStateRecords(st, t) ==
    [_clean_old_requests(st, t) EXCEPT !.requests = Append(@, t)]

\* the record get_remaining leaves behind
GetRemainingState(st, t) == _clean_old_requests(st, t)

GetRemaining(ts, cfg, h, route, t) ==
    LET ts1 == Touch(ts, h, t)
        st == GetRemainingState(ts1[h], t)
        effective_limit == _get_effective_limit(st, cfg, route)
    IN  [table |-> [ts1 EXCEPT ![h] = st],
         value |-> Max(0, effective_limit - Len(st.requests))]

(***************************************************************************)
(* Token validation (src/auth/oauth.py).  A bearer token is modelled by    *)
(* what decoding it yields: whether its signature verifies under           *)
(* JWT_SECRET, and the exp, iss, aud and scopes claims of its payload      *)
(* (exp is {} when the payload has none).  scopes_type is the JSON type of  *)
(* the scopes claim: "list" for a list of strings; for any other type the  *)
(* claim passes jwt.decode, which does not look at it, and is rejected by   *)
(* the TokenPayload model (scopes: list[str]).                              *)
(***************************************************************************)
JWT_ISSUER == "security-aware-api"

JWT_AUDIENCE == "internal-services"

HTTP_401_UNAUTHORIZED == 401
HTTP_403_FORBIDDEN == 403
HTTP_404_NOT_FOUND == 404
HTTP_422_UNPROCESSABLE_ENTITY == 422
HTTP_200_OK == 200
HTTP_201_CREATED == 201
HTTP_500_INTERNAL_SERVER_ERROR == 500

Scope == {"read:metrics", "write:metrics", "read:users", "admin:users"}

\* a fingerprint that is the token string itself, not a digest of it
Mut_hash_token_Raw(token) == <<"raw", token>>

\* the digest of the token string; distinct tokens have distinct digests
_hash_token(token) == <<"sha256", token>>

\* payload.get("exp", 0)
ExpOf(token) == IF token.exp = {} THEN 0 ELSE CHOOSE e \in token.exp : TRUE

\* jwt.decode called without audience=: the aud claim is not verified
Mut_jwt_decode_NoAudience(token, t) ==
    IF ~token.signature_valid THEN "JWTError"
    ELSE IF token.exp # {} /\ ExpOf(token) < t THEN "ExpiredSignatureError"
    ELSE IF token.iss # JWT_ISSUER THEN "JWTClaimsError"
    ELSE ""

\* jwt.decode(token, JWT_SECRET, algorithms, audience, issuer): the name of the
\* JWTError it raises, or "" when it returns the payload.  It verifies the
\* signature, then exp (when present) against the clock in whole seconds, then
\* aud and iss.
jwt_decode(token, t) ==
    IF ~token.signature_valid THEN "JWTError"
    ELSE IF token.exp # {} /\ ExpOf(token) < t THEN "ExpiredSignatureError"
    ELSE IF token.aud # JWT_AUDIENCE THEN "JWTClaimsError"
    ELSE IF token.iss # JWT_ISSUER THEN "JWTClaimsError"
    ELSE ""

\* datetime.fromtimestamp(exp) < datetime.now(): the clock reads t seconds and,
\* when subsecond holds, a fraction of a second more
ExplicitlyExpired(token, t, subsecond) ==
    ExpOf(token) < t \/ (ExpOf(token) = t /\ subsecond)

\* an exception no handler is registered for: it leaves the application and
\* the server answers 500
Unhandled(error_type) ==
    [raised |-> TRUE, status_code |-> HTTP_500_INTERNAL_SERVER_ERROR,
     detail |-> "Internal Server Error", headers |-> {}]

\* TokenPayload(sub=..., scopes=payload.get("scopes", []), ...): the name of the
\* error the model's validation raises, or "" when the payload is built
TokenPayloadError(token) ==
    IF token.scopes_type # "list" THEN "ValidationError" ELSE ""

\* get_current_token: what it raises, the TokenPayload it returns, what it logs
GetCurrentToken(credentials, t, subsecond) ==
    IF credentials = {}
    THEN [exc |-> Raise(HTTP_401_UNAUTHORIZED, "Missing authentication token",
                        {<<"WWW-Authenticate", "Bearer">>}),
          payload |-> {},
          log |-> <<Event("auth.failure", "PROBING", "<no-token>", "missing_token",
                          [error_type |-> ""])>>]
    ELSE LET token == CHOOSE c \in credentials : TRUE
             token_hash == _hash_token(token)
             error_type == jwt_decode(token, t)
         IN  IF error_type # ""
             THEN [exc |-> Raise(HTTP_401_UNAUTHORIZED, "Invalid or expired token",
                                 {<<"WWW-Authenticate", "Bearer">>}),
                   payload |-> {},
                   log |-> <<Event("auth.failure", "PROBING", token_hash,
                                   "invalid_token", [error_type |-> error_type])>>]
             ELSE IF ExplicitlyExpired(token, t, subsecond)
             THEN [exc |-> Raise(HTTP_401_UNAUTHORIZED, "Token expired",
                                 {<<"WWW-Authenticate", "Bearer">>}),
                   payload |-> {},
                   log |-> <<Event("auth.failure", "PROBING", token_hash,
                                   "expired_token", [error_type |-> ""])>>]
             ELSE IF TokenPayloadError(token) # ""
             THEN [exc |-> Unhandled(TokenPayloadError(token)),
                   payload |-> {},
                   log |-> <<>>]
             ELSE [exc |-> NoRaise,
                   payload |-> {[sub |-> token.sub,
                                 scopes |-> token.scopes, exp |-> ExpOf(token),
                                 iss |-> token.iss, aud |-> token.aud,
                                 token_hash |-> token_hash]},
                   log |-> <<Event("auth.success", "BENIGN", token_hash, "",
                                   [subject |-> token.sub,
                                    scope_count |-> Cardinality(token.scopes)])>>]

(***************************************************************************)
(* Capability authorization (src/auth/scopes.py).                          *)
(***************************************************************************)
\* the same with admin:users standing in for read:users
MutMissingScopesInherit(required_scopes, token) ==
    {s \in required_scopes :
        /\ s \notin token.scopes
        /\ ~(s = "read:users" /\ "admin:users" \in token.scopes)}

\* scope_guard refusing without a word to the security logger
MutScopeGuardSilent(required_scopes, token) ==
    IF {s \in required_scopes : s \notin token.scopes} # {}
    THEN [exc |-> Raise(HTTP_403_FORBIDDEN, "Insufficient scope",
                        {<<"WWW-Authenticate", <<"Bearer scope=", required_scopes>>>>}),
          log |-> <<>>]
    ELSE [exc |-> NoRaise,
          log |-> <<Event("authz.success", "BENIGN", token.token_hash, "",
                          [scopes_used |-> required_scopes])>>]

\* [s.value for s in required_scopes if s.value not in token.scopes]
MissingScopes(required_scopes, token) ==
    {s \in required_scopes : s \notin token.scopes}

\* scope_guard of require_scope(*required_scopes)
ScopeGuard(required_scopes, token) ==
    LET missing_scopes == MissingScopes(required_scopes, token)
    IN  IF missing_scopes # {}
        THEN [exc |-> Raise(HTTP_403_FORBIDDEN, "Insufficient scope",
                            {<<"WWW-Authenticate", <<"Bearer scope=", required_scopes>>>>}),
              log |-> <<Event("authz.failure", "ESCALATION_ATTEMPT", token.token_hash, "",
                              [required_scopes |-> required_scopes,
                               provided_scopes |-> token.scopes,
                               missing_scopes |-> missing_scopes])>>]
        ELSE [exc |-> NoRaise,
              log |-> <<Event("authz.success", "BENIGN", token.token_hash, "",
                              [scopes_used |-> required_scopes])>>]

(***************************************************************************)
(* The routes (src/routes/metrics.py, src/routes/users.py).                *)
(***************************************************************************)
Operations ==
    {"list_metrics", "get_metric", "create_metric", "update_metric",
     "list_users", "get_user", "update_user"}

\* dependencies=[Depends(require_scope(...))] of each route
RequiredScopes(op) ==
    CASE op \in {"list_metrics", "get_metric"} -> {"read:metrics"}
      [] op \in {"create_metric", "update_metric"} -> {"write:metrics"}
      [] op \in {"list_users", "get_user"} -> {"read:users"}
      [] op = "update_user" -> {"admin:users"}

\* the route each handler passes to check_rate_limit
RateRoute(op) ==
    IF op \in {"list_metrics", "get_metric", "create_metric", "update_metric"}
    THEN "/metrics" ELSE "/users"

\* operations with a body or typed query parameters that request validation checks
ValidatedOperations ==
    {"list_metrics", "create_metric", "update_metric", "list_users", "update_user"}

\* operations that look a resource up and answer 404 when it is absent
LookupOperations == {"get_metric", "update_metric", "get_user", "update_user"}

\* operations that log validation.success before changing the store
LoggingOperations == {"create_metric", "update_metric", "update_user"}

SuccessStatus(op) == IF op = "create_metric" THEN HTTP_201_CREATED ELSE HTTP_200_OK

Response(code, error, detail, headers) ==
    [status_code |-> code, error |-> error, detail |-> detail, headers |-> headers]

\* FastAPI's answer to an HTTPException: its status, detail and headers
HTTPExceptionResponse(exc) == Response(exc.status_code, "", exc.detail, exc.headers)

\* validation_exception_handler (src/main.py) for a request carrying `credentials`
ValidationExceptionHandler(ts, credentials, route, t) ==
    LET token_hash == IF credentials = {} THEN {}
                      ELSE {_hash_token(CHOOSE c \in credentials : TRUE)}
        failure == Event("validation.failure", "MALFORMED",
                         IF token_hash = {} THEN "<no-token>"
                         ELSE CHOOSE h \in token_hash : TRUE,
                         "", [route |-> route])
    IN  IF token_hash = {}
        THEN [table |-> ts, log |-> <<failure>>,
              response |-> Response(HTTP_422_UNPROCESSABLE_ENTITY, "validation_error",
                                    "Request validation failed", {})]
        ELSE LET r == RecordMalformedRequest(ts, CHOOSE h \in token_hash : TRUE,
                                             "validation_failure", t)
             IN  [table |-> r.table, log |-> <<failure>> \o r.log,
                  response |->
                    IF r.exc.raised
                    THEN Response(HTTP_429_TOO_MANY_REQUESTS, "rate_limited",
                           "Temporarily blocked due to repeated malformed requests", {})
                    ELSE Response(HTTP_422_UNPROCESSABLE_ENTITY, "validation_error",
                                  "Request validation failed", {})]

\* a handler that swallows the 429 of check_rate_limit and goes on
MutHandlerIgnoresRateLimit(ts, cfg, op, token, exists, t) ==
    LET r == CheckRateLimit(ts, cfg, token.token_hash, RateRoute(op), t)
    IN  IF op \in LookupOperations /\ ~exists
        THEN [table |-> r.table, log |-> r.log,
              ran |-> <<"check_rate_limit", "handler_logic">>,
              response |-> Response(HTTP_404_NOT_FOUND, "", "Not found", {})]
        ELSE [table |-> r.table, log |-> r.log,
              ran |-> <<"check_rate_limit", "handler_logic">>,
              response |-> Response(SuccessStatus(op), "", "", {})]

\* a handler that gives the quota slot back when its lookup fails
MutHandlerRefundsOn404(ts, cfg, op, token, exists, t) ==
    LET r == CheckRateLimit(ts, cfg, token.token_hash, RateRoute(op), t)
    IN  IF r.exc.raised
        THEN [table |-> r.table, log |-> r.log, ran |-> <<"check_rate_limit">>,
              response |-> HTTPExceptionResponse(r.exc)]
        ELSE IF op \in LookupOperations /\ ~exists
        THEN [table |-> ts, log |-> r.log,
              ran |-> <<"check_rate_limit", "handler_logic">>,
              response |-> Response(HTTP_404_NOT_FOUND, "", "Not found", {})]
        ELSE [table |-> r.table, log |-> r.log,
              ran |-> <<"check_rate_limit", "handler_logic">>,
              response |-> Response(SuccessStatus(op), "", "", {})]

\* the body of a route handler: check_rate_limit, then the handler's own logic
Handler(ts, cfg, op, token, exists, t) ==
    LET r == CheckRateLimit(ts, cfg, token.token_hash, RateRoute(op), t)
        success == IF op \in LoggingOperations
                   THEN <<Event("validation.success", "BENIGN", token.token_hash, "",
                                [route |-> RateRoute(op)])>>
                   ELSE <<>>
    IN  IF r.exc.raised
        THEN [table |-> r.table, log |-> r.log, ran |-> <<"check_rate_limit">>,
              response |-> HTTPExceptionResponse(r.exc)]
        ELSE IF op \in LookupOperations /\ ~exists
        THEN [table |-> r.table, log |-> r.log,
              ran |-> <<"check_rate_limit", "handler_logic">>,
              response |-> Response(HTTP_404_NOT_FOUND, "",
                                    IF RateRoute(op) = "/metrics"
                                    THEN "Metric not found" ELSE "User not found", {})]
        ELSE [table |-> r.table, log |-> r.log \o success,
              ran |-> <<"check_rate_limit", "handler_logic">>,
              response |-> Response(SuccessStatus(op), "", "", {})]

(***************************************************************************)
(* Unit-level state machine: the RateLimiter API called directly, as the   *)
(* unit tests do, on the singleton built by get_rate_limiter().            *)
(***************************************************************************)
NoCall ==
    [op |-> "none", token_hash |-> "", route |-> "", exc |-> NoRaise, returns |-> {},
     log |-> <<>>]

NoRequest == [credentials |-> {}, op |-> "none"]

LoopIdle ==
    /\ tasks = <<>>
    /\ running = "none"
    /\ serial = <<>>

GateIdle ==
    /\ pc = "idle"
    /\ req = NoRequest
    /\ claims = {}
    /\ resp = {}
    /\ trace = <<>>
    /\ events = <<>>
    /\ LoopIdle

Init ==
    /\ now = FirstInstant
    /\ token_state = <<>>
    /\ route_config = StartupRouteConfig
    /\ ret = NoCall
    /\ GateIdle

Tick ==
    /\ \E u \in Instants : u > now
    /\ now' = NextInstant(now)
    /\ UNCHANGED <<token_state, route_config, ret>>
    /\ UNCHANGED gate_vars

check_rate_limit(h, route) ==
    LET r == CheckRateLimit(token_state, route_config, h, route, now)
    IN  /\ r.exc.raised \/ Len(r.table[h].requests) <= MaxRequests
        /\ token_state' = r.table
        /\ ret' = [op |-> "check_rate_limit", token_hash |-> h, route |-> route,
                   exc |-> r.exc, returns |-> {}, log |-> r.log]
        /\ UNCHANGED <<now, route_config>>
        /\ UNCHANGED gate_vars

record_malformed_request(h) ==
    LET r == RecordMalformedRequest(token_state, h, "test_reason", now)
    IN  /\ r.table[h].malformed_count <= MaxMalformed
        /\ token_state' = r.table
        /\ ret' = [op |-> "record_malformed_request", token_hash |-> h, route |-> "",
                   exc |-> r.exc, returns |-> {}, log |-> r.log]
        /\ UNCHANGED <<now, route_config>>
        /\ UNCHANGED gate_vars

get_remaining(h, route) ==
    LET r == GetRemaining(token_state, route_config, h, route, now)
    IN  /\ token_state' = r.table
        /\ ret' = [op |-> "get_remaining", token_hash |-> h, route |-> route,
                   exc |-> NoRaise, returns |-> {r.value}, log |-> <<>>]
        /\ UNCHANGED <<now, route_config>>
        /\ UNCHANGED gate_vars

\* limiter.configure_route(route, requests_per_minute, burst_allowance)
configure_route(route, requests_per_minute, burst_allowance) ==
    /\ route_config' =
         [r \in DOMAIN route_config \cup {route} |->
             IF r = route THEN RouteConfig(requests_per_minute, burst_allowance)
             ELSE route_config[r]]
    /\ ret' = [op |-> "configure_route", token_hash |-> "", route |-> route,
               exc |-> NoRaise, returns |-> {}, log |-> <<>>]
    /\ UNCHANGED <<now, token_state>>
    /\ UNCHANGED gate_vars

\* reset_rate_limiter(): the cache is cleared, so the limiter every later
\* get_rate_limiter() call returns is a new one.  The call's record keeps the
\* blocked identities of the limiter it dropped.
reset_rate_limiter ==
    LET cached == {[_token_state |-> token_state, _route_config |-> route_config]}
        limiter == get_rate_limiter(cache_clear(cached))
    IN  /\ token_state' = limiter._token_state
        /\ route_config' = limiter._route_config
        /\ ret' = [op |-> "reset_rate_limiter", token_hash |-> "", route |-> "",
                   exc |-> NoRaise, returns |-> {}, log |-> <<>>,
                   dropped |-> {h \in DOMAIN token_state :
                                  /\ token_state[h].malformed_count
                                       >= MAX_MALFORMED_BEFORE_BLOCK
                                  /\ token_state[h].requests # <<>>}]
        /\ UNCHANGED now
        /\ UNCHANGED gate_vars


Next ==
    \/ Tick
    \/ \E h \in TokenHashes, route \in Routes : check_rate_limit(h, route)
    \/ \E h \in TokenHashes : record_malformed_request(h)
    \/ \E h \in TokenHashes, route \in Routes : get_remaining(h, route)

Spec == Init /\ [][Next]_vars

(***************************************************************************)
(* The same API with the two operations that replace limits and state:     *)
(* configure_route on the singleton, as the unit tests call it, and        *)
(* reset_rate_limiter, as the test fixtures call it between tests.         *)
(***************************************************************************)
\* the routes configured, and the limits they are given
ConfiguredRoutes == {<<"/test", 50, 10>>}

AdminRoutes == {"/test", "/users"}

AdminNext ==
    \/ Tick
    \/ \E h \in TokenHashes, route \in AdminRoutes : check_rate_limit(h, route)
    \/ \E h \in TokenHashes : record_malformed_request(h)
    \/ \E h \in TokenHashes, route \in AdminRoutes : get_remaining(h, route)
    \/ \E c \in ConfiguredRoutes : configure_route(c[1], c[2], c[3])
    \/ reset_rate_limiter

SpecAdmin == Init /\ [][AdminNext]_vars

(***************************************************************************)
(* Long penalty histories: one identity is charged malformed requests and  *)
(* is checked again after whole decay intervals, with "/test" left         *)
(* unconfigured or configured with a limit of its own.                     *)
(***************************************************************************)
LimitConfigs ==
    {StartupRouteConfig,
     StartupRouteConfig @@ ("/test" :> RouteConfig(80, 10))}

LimitRoutes == {"/test", "/metrics"}

LimitInit ==
    /\ now = FirstInstant
    /\ token_state = <<>>
    /\ route_config \in LimitConfigs
    /\ ret = NoCall
    /\ GateIdle

\* a decay interval passes with no call made
Elapse ==
    /\ now < FirstInstant + MaxDecays * DecaySeconds
    /\ now' = now + DecaySeconds
    /\ UNCHANGED <<token_state, route_config, ret>>
    /\ UNCHANGED gate_vars

LimitNext ==
    \/ Elapse
    \/ \E h \in TokenHashes, route \in LimitRoutes : check_rate_limit(h, route)
    \/ \E h \in TokenHashes : record_malformed_request(h)
    \/ \E h \in TokenHashes, route \in LimitRoutes : get_remaining(h, route)

SpecLimit == LimitInit /\ [][LimitNext]_vars

(***************************************************************************)
(* Recovery: identities are charged malformed requests while the clock     *)
(* shows its first reading; from then on they are only observed, by        *)
(* check_rate_limit or get_remaining, at least once in every decay         *)
(* interval.  ret is the outcome of the last call made in the current      *)
(* interval.  The fairness conditions are the premise that the identity    *)
(* keeps being observed as time advances.                                  *)
(***************************************************************************)
Penalise(h) ==
    /\ now = FirstInstant
    /\ record_malformed_request(h)

Observe ==
    \E h \in TokenHashes, route \in Routes :
        check_rate_limit(h, route) \/ get_remaining(h, route)

\* the next decay interval begins, the identities having been observed in this one
NextInterval ==
    /\ ret.op \in {"check_rate_limit", "get_remaining"}
    /\ now < FirstInstant + MaxDecays * DecaySeconds
    /\ now' = now + DecaySeconds
    /\ ret' = NoCall
    /\ UNCHANGED <<token_state, route_config>>
    /\ UNCHANGED gate_vars

RecoverNext ==
    \/ \E h \in TokenHashes : Penalise(h)
    \/ Observe
    \/ NextInterval

\* An observation that changes ret is possible in every state (get_remaining
\* on a route other than the last one observed), so weak fairness of Observe
\* is that observations go on for ever.
SpecRecover ==
    /\ Init
    /\ [][RecoverNext]_vars
    /\ WF_vars(NextInterval)
    /\ []<><<Observe>>_vars

(***************************************************************************)
(* Two identities on one limiter, called in any order on a route           *)
(* configured with a small limit, at two clock readings one decay interval *)
(* apart.                                                                  *)
(***************************************************************************)
PairHashes == {"h1", "h2"}

PairRoute == "/test"

PairInit ==
    /\ now = FirstInstant
    /\ token_state = <<>>
    /\ route_config = StartupRouteConfig @@ (PairRoute :> RouteConfig(1, 1))
    /\ ret = NoCall
    /\ GateIdle

PairTick ==
    /\ now = FirstInstant
    /\ now' = FirstInstant + DecaySeconds
    /\ UNCHANGED <<token_state, route_config, ret>>
    /\ UNCHANGED gate_vars

PairMalformed(h) ==
    /\ Touch(token_state, h, now)[h].malformed_count < MaxPair
    /\ record_malformed_request(h)

PairNext ==
    \/ PairTick
    \/ \E h \in PairHashes : check_rate_limit(h, PairRoute)
    \/ \E h \in PairHashes : PairMalformed(h)
    \/ \E h \in PairHashes : get_remaining(h, PairRoute)

SpecPair == PairInit /\ [][PairNext]_vars

(***************************************************************************)
(* One burst: a clean identity calls check_rate_limit on one route, again  *)
(* and again, with every call inside one window.  The route table is the   *)
(* startup one, or has "/test" configured as the tests configure it.       *)
(***************************************************************************)
BurstConfigs ==
    {StartupRouteConfig,
     StartupRouteConfig @@ ("/test" :> RouteConfig(60, 10)),
     StartupRouteConfig @@ ("/test" :> RouteConfig(50, 10))}

BurstInit ==
    /\ now = FirstInstant
    /\ token_state = <<>>
    /\ route_config \in BurstConfigs
    /\ ret = NoCall
    /\ GateIdle

BurstTick ==
    /\ \E u \in Instants : u > now /\ u < FirstInstant + DEFAULT_WINDOW_SECONDS
    /\ now' = NextInstant(now)
    /\ UNCHANGED <<token_state, route_config, ret>>
    /\ UNCHANGED gate_vars

BurstCheck(h, route) ==
    /\ h \in DOMAIN token_state => ret.route = route
    /\ LET r == CheckRateLimit(token_state, route_config, h, route, now)
       IN  /\ token_state' = r.table
           /\ ret' = [op |-> "check_rate_limit", token_hash |-> h, route |-> route,
                      exc |-> r.exc, returns |-> {}, log |-> r.log]
    /\ UNCHANGED <<now, route_config>>
    /\ UNCHANGED gate_vars

BurstNext ==
    \/ BurstTick
    \/ \E h \in TokenHashes, route \in Routes : BurstCheck(h, route)

SpecBurst == BurstInit /\ [][BurstNext]_vars

(***************************************************************************)
(* One request through the serving layer.  FastAPI resolves the route's    *)
(* dependencies first (scope_guard, whose own dependency is                *)
(* get_current_token), then validates the body and the typed parameters,   *)
(* then calls the handler; request_logging_middleware wraps them all.      *)
(***************************************************************************)
TOKEN_LIFETIME_MINUTES == 60

LastInstant == CHOOSE t \in Instants : \A u \in Instants : u <= t

ExpChoices ==
    {{}, {FirstInstant - 60}, {FirstInstant + HalfWindow},
     {LastInstant + TOKEN_LIFETIME_MINUTES * 60}}

ScopeChoices ==
    {{}, {"read:metrics"}, {"read:metrics", "write:metrics"}, {"admin:users"},
     {"read:users", "admin:users"}}

\* tokens whose claims have the shape create_test_token gives them
WellFormedTokens ==
    [signature_valid : BOOLEAN, exp : ExpChoices,
     iss : {JWT_ISSUER, "other-issuer"}, aud : {JWT_AUDIENCE, "other-audience"},
     scopes : ScopeChoices, scopes_type : {"list"}, sub : {"test-service"}]

\* tokens signed with a scopes claim that is a JSON number, not a list
MisshapenTokens ==
    [signature_valid : BOOLEAN, exp : ExpChoices,
     iss : {JWT_ISSUER}, aud : {JWT_AUDIENCE},
     scopes : {{}}, scopes_type : {"int"}, sub : {"test-service"}]

Tokens == WellFormedTokens \cup MisshapenTokens

Credentials == {{}} \cup {{token} : token \in Tokens}

RequestInstants == {FirstInstant + w * HalfWindow : w \in 0..MaxHalfWindows}

RECURSIVE AfterMalformed(_, _, _, _)
\* the rate table after k validation failures charged to h at time t
AfterMalformed(ts, h, k, t) ==
    IF k = 0 THEN ts
    ELSE AfterMalformed(RecordMalformedRequest(ts, h, "validation_failure", t).table,
                        h, k - 1, t)

RECURSIVE AfterChecks(_, _, _, _, _, _)
\* the rate table after j more calls of check_rate_limit for h at time t
AfterChecks(ts, cfg, h, route, j, t) ==
    IF j = 0 THEN ts
    ELSE AfterChecks(CheckRateLimit(ts, cfg, h, route, t).table, cfg, h, route, j - 1, t)

\* the rate tables earlier requests with the same credentials can have left
PriorTables(credentials, t) ==
    IF credentials = {} THEN {<<>>}
    ELSE LET h == _hash_token(CHOOSE c \in credentials : TRUE)
         IN  {<<>>} \cup
             { AfterChecks(AfterMalformed(<<>>, h, k, t), StartupRouteConfig, h, route, j, t) :
                 k \in 0..MAX_MALFORMED_BEFORE_BLOCK, j \in 0..MaxRequests,
                 route \in {"/metrics", "/users"} }

\* request_logging_middleware: the record logged once the response exists
RequestComplete(credentials, response) ==
    Event("request.complete", "BENIGN",
          IF credentials = {} THEN "<anonymous>"
          ELSE _hash_token(CHOOSE c \in credentials : TRUE),
          "", [status_code |-> response.status_code])

Respond(response, log) ==
    /\ resp' = {response}
    /\ events' = events \o log \o <<RequestComplete(req.credentials, response)>>
    /\ pc' = "done"

\* an unhandled exception passes through `await call_next(request)` of
\* request_logging_middleware, which therefore logs nothing; the server's
\* error middleware sends the 500
ServerError(exc, log) ==
    /\ resp' = {HTTPExceptionResponse(exc)}
    /\ events' = events \o log
    /\ pc' = "done"

RequestInit ==
    /\ now \in RequestInstants
    /\ req \in [credentials : Credentials, op : Operations]
    /\ token_state \in PriorTables(req.credentials, now)
    /\ route_config = StartupRouteConfig
    /\ ret = NoCall
    /\ pc = "get_current_token"
    /\ claims = {}
    /\ resp = {}
    /\ trace = <<>>
    /\ events = <<>>
    /\ LoopIdle

get_current_token(subsecond) ==
    /\ pc = "get_current_token"
    /\ LET r == GetCurrentToken(req.credentials, now, subsecond)
       IN  /\ trace' = Append(trace, "get_current_token")
           /\ claims' = r.payload
           /\ IF r.exc.raised /\ r.exc.status_code = HTTP_500_INTERNAL_SERVER_ERROR
              THEN ServerError(r.exc, r.log)
              ELSE IF r.exc.raised
              THEN Respond(HTTPExceptionResponse(r.exc), r.log)
              ELSE /\ pc' = "scope_guard"
                   /\ events' = events \o r.log
                   /\ UNCHANGED resp
    /\ UNCHANGED <<now, req>>
    /\ UNCHANGED limiter_vars
    /\ UNCHANGED loop_vars

scope_guard(required_scopes) ==
    /\ pc = "scope_guard"
    /\ LET token == CHOOSE c \in claims : TRUE
           r == ScopeGuard(required_scopes, token)
       IN  /\ trace' = Append(trace, "scope_guard")
           /\ IF r.exc.raised
              THEN Respond(HTTPExceptionResponse(r.exc), r.log)
              ELSE /\ pc' = "request_validation"
                   /\ events' = events \o r.log
                   /\ UNCHANGED resp
    /\ UNCHANGED <<now, req, claims>>
    /\ UNCHANGED limiter_vars
    /\ UNCHANGED loop_vars

\* the body and typed parameters pass validation, or RequestValidationError
\* reaches validation_exception_handler
request_validation(valid) ==
    /\ pc = "request_validation"
    /\ IF req.op \in ValidatedOperations /\ ~valid
       THEN LET r == ValidationExceptionHandler(token_state, req.credentials,
                                                RateRoute(req.op), now)
            IN  /\ trace' = trace \o <<"request_validation", "validation_exception_handler">>
                /\ token_state' = r.table
                /\ Respond(r.response, r.log)
       ELSE /\ trace' = Append(trace, "request_validation")
            /\ pc' = "handler"
            /\ UNCHANGED <<token_state, resp, events>>
    /\ UNCHANGED <<now, req, claims, route_config, ret>>
    /\ UNCHANGED loop_vars

handler(exists) ==
    /\ pc = "handler"
    /\ LET token == CHOOSE c \in claims : TRUE
           r == Handler(token_state, route_config, req.op, token, exists, now)
       IN  /\ trace' = trace \o r.ran
           /\ token_state' = r.table
           /\ Respond(r.response, r.log)
    /\ UNCHANGED <<now, req, claims, route_config, ret>>
    /\ UNCHANGED loop_vars

RequestNext ==
    \/ \E subsecond \in BOOLEAN : get_current_token(subsecond)
    \/ scope_guard(RequiredScopes(req.op))
    \/ \E valid \in BOOLEAN : request_validation(valid)
    \/ \E exists \in BOOLEAN : handler(exists)

SpecRequest == RequestInit /\ [][RequestNext]_vars

(***************************************************************************)
(* The same request with the reading of its body made a stage of its own.  *)
(* create_metric, update_metric and update_user declare a `body` parameter *)
(* of a pydantic model; FastAPI's request handler reads and decodes the    *)
(* JSON text of such a body before it resolves any dependency, and a body  *)
(* that is not JSON raises RequestValidationError there and then, so that  *)
(* validation_exception_handler runs before get_current_token has seen the *)
(* credential.  A body that decodes goes on to the dependencies, and its   *)
(* fields are validated after them, as above.                              *)
(***************************************************************************)
\* operations whose handler declares a JSON body
BodyOperations == {"create_metric", "update_metric", "update_user"}

BodyInit ==
    /\ now \in RequestInstants
    /\ req \in [credentials : Credentials, op : Operations]
    /\ token_state \in PriorTables(req.credentials, now)
    /\ route_config = StartupRouteConfig
    /\ ret = NoCall
    /\ pc = "json_body"
    /\ claims = {}
    /\ resp = {}
    /\ trace = <<>>
    /\ events = <<>>
    /\ LoopIdle

\* the body's text decodes as JSON, or RequestValidationError reaches
\* validation_exception_handler
json_body(decodes) ==
    /\ pc = "json_body"
    /\ IF req.op \in BodyOperations /\ ~decodes
       THEN LET r == ValidationExceptionHandler(token_state, req.credentials,
                                                RateRoute(req.op), now)
            IN  /\ trace' = trace \o <<"json_body", "validation_exception_handler">>
                /\ token_state' = r.table
                /\ Respond(r.response, r.log)
       ELSE /\ trace' = Append(trace, "json_body")
            /\ pc' = "get_current_token"
            /\ UNCHANGED <<token_state, resp, events>>
    /\ UNCHANGED <<now, req, claims, route_config, ret>>
    /\ UNCHANGED loop_vars

BodyNext ==
    \/ \E decodes \in BOOLEAN : json_body(decodes)
    \/ \E subsecond \in BOOLEAN : get_current_token(subsecond)
    \/ scope_guard(RequiredScopes(req.op))
    \/ \E valid \in BOOLEAN : request_validation(valid)
    \/ \E exists \in BOOLEAN : handler(exists)

SpecBody == BodyInit /\ [][BodyNext]_vars

(***************************************************************************)
(* The same request when a call to the security logger raises (the sink is *)
(* a PrintLogger on standard output; a write to it can fail).  No logger   *)
(* call of the gate sits in a try block of its own, so the exception       *)
(* leaves the function that logs.  Each action below is the stage whose    *)
(* logger call fails; the other stages run as before.                      *)
(***************************************************************************)
\* get_current_token: each of its three failure branches and its success branch
\* logs before it raises or returns
sink_fails_in_get_current_token(subsecond) ==
    /\ pc = "get_current_token"
    /\ GetCurrentToken(req.credentials, now, subsecond).log # <<>>
    /\ trace' = Append(trace, "get_current_token")
    /\ ServerError(Unhandled("OSError"), <<>>)
    /\ UNCHANGED <<now, req, claims>>
    /\ UNCHANGED limiter_vars
    /\ UNCHANGED loop_vars

\* scope_guard logs on both branches
sink_fails_in_scope_guard ==
    /\ pc = "scope_guard"
    /\ trace' = Append(trace, "scope_guard")
    /\ ServerError(Unhandled("OSError"), <<>>)
    /\ UNCHANGED <<now, req, claims>>
    /\ UNCHANGED limiter_vars
    /\ UNCHANGED loop_vars

\* validation_exception_handler: log_validation_failure raises, or it succeeds
\* and the log_rate_limit_penalty call inside record_malformed_request raises,
\* within the handler's `try ... except Exception`
sink_fails_in_validation_exception_handler(failing_call) ==
    /\ pc = "request_validation"
    /\ req.op \in ValidatedOperations
    /\ trace' = trace \o <<"request_validation", "validation_exception_handler">>
    /\ IF failing_call = "log_validation_failure"
       THEN /\ ServerError(Unhandled("OSError"), <<>>)
            /\ UNCHANGED token_state
       ELSE LET r == ValidationExceptionHandler(token_state, req.credentials,
                                                RateRoute(req.op), now)
            IN  /\ token_state' = r.table
                /\ Respond(Response(HTTP_429_TOO_MANY_REQUESTS, "rate_limited",
                              "Temporarily blocked due to repeated malformed requests",
                              {}),
                            <<r.log[1]>>)
    /\ UNCHANGED <<now, req, claims, route_config, ret>>
    /\ UNCHANGED loop_vars

\* a route handler: the log_rate_limit_exceeded call of a refused check, the
\* handler's own log_validation_success, or, when the handler logs nothing, the
\* log_request call of request_logging_middleware
sink_fails_in_handler(exists) ==
    /\ pc = "handler"
    /\ LET token == CHOOSE c \in claims : TRUE
           r == Handler(token_state, route_config, req.op, token, exists, now)
       IN  /\ trace' = trace \o r.ran
           /\ token_state' = r.table
           /\ ServerError(Unhandled("OSError"), <<>>)
    /\ UNCHANGED <<now, req, claims, route_config, ret>>
    /\ UNCHANGED loop_vars

SinkNext ==
    \/ RequestNext
    \/ \E subsecond \in BOOLEAN : sink_fails_in_get_current_token(subsecond)
    \/ sink_fails_in_scope_guard
    \/ \E failing_call \in {"log_validation_failure", "log_rate_limit_penalty"} :
         sink_fails_in_validation_exception_handler(failing_call)
    \/ \E exists \in BOOLEAN : sink_fails_in_handler(exists)

SpecSink == RequestInit /\ [][SinkNext]_vars

(***************************************************************************)
(* scope_guard alone, on every granted set and every required set.         *)
(***************************************************************************)
GrantedStrings == Scope \cup {"admin"}

ScopeInit ==
    /\ now = FirstInstant
    /\ token_state = <<>>
    /\ route_config = StartupRouteConfig
    /\ ret = NoCall
    /\ pc = "scope_guard"
    /\ req = NoRequest
    /\ \E granted \in SUBSET GrantedStrings :
         claims = {[sub |-> "test-service",
                    scopes |-> granted, exp |-> LastInstant, iss |-> JWT_ISSUER,
                    aud |-> JWT_AUDIENCE, token_hash |-> "h1"]}
    /\ resp = {}
    /\ trace = <<>>
    /\ events = <<>>
    /\ LoopIdle

ScopeNext == \E required_scopes \in SUBSET Scope : scope_guard(required_scopes)

SpecScope == ScopeInit /\ [][ScopeNext]_vars

(***************************************************************************)
(* Concurrent calls.  Every caller of the limiter is a coroutine of the    *)
(* one event loop (the route handlers and validation_exception_handler are *)
(* async def); the limiter's methods are plain functions without an await, *)
(* so a coroutine that has entered one keeps the loop until the method     *)
(* returns or raises.  Each method is taken statement by statement; all    *)
(* calls are for one identity on one route.                                *)
(***************************************************************************)
Tasks == 1..MaxTasks

LoopOps == {"check_rate_limit", "record_malformed_request", "get_remaining"}

LoopIdentity == "h1"

LoopRoute == "/users"

\* a coroutine inside the limiter that also gives up the loop between the
\* comparison with the limit and the append
MutSuspendsBeforeAppend(position) == position \in {"done", "append"}

\* the positions at which a coroutine gives the loop to the others: none inside
\* a limiter method, so only once the call is over
Suspends(position) == position = "done"

\* the outcome and the table of the whole call made on table ts
SequentialCall(ts, op, t) ==
    CASE op = "check_rate_limit" ->
           LET r == CheckRateLimit(ts, route_config, LoopIdentity, LoopRoute, t)
           IN  [table |-> r.table,
                outcome |-> IF r.exc.raised THEN "rejected" ELSE "admitted"]
      [] op = "record_malformed_request" ->
           LET r == RecordMalformedRequest(ts, LoopIdentity, "validation_failure", t)
           IN  [table |-> r.table,
                outcome |-> IF r.exc.raised THEN "blocked" ELSE "recorded"]
      [] op = "get_remaining" ->
           LET r == GetRemaining(ts, route_config, LoopIdentity, LoopRoute, t)
           IN  [table |-> r.table, outcome |-> ToString(r.value)]

\* the rate tables the identity's earlier calls, made at the first instant, left
LoopPriorTables ==
    {<<>>} \cup
    { AfterChecks(AfterMalformed(<<>>, LoopIdentity, k, FirstInstant),
                  StartupRouteConfig, LoopIdentity, LoopRoute, j, FirstInstant) :
        k \in {0, MAX_MALFORMED_BEFORE_BLOCK - 1}, j \in 0..MaxTasks }

LoopInit ==
    /\ now \in {FirstInstant, FirstInstant + DecaySeconds}
    /\ token_state \in LoopPriorTables
    /\ route_config = StartupRouteConfig
    /\ ret = NoCall
    /\ pc = "idle"
    /\ req = NoRequest
    /\ claims = {}
    /\ resp = {}
    /\ trace = <<>>
    /\ events = <<>>
    /\ tasks \in [Tasks -> [op : LoopOps, pc : {"lookup"}, limit : {0},
                             outcome : {""}, expected : {""}]]
    /\ running = "none"
    /\ serial = token_state

\* the coroutine `task` executes the statement at `position` and goes to `next`
LoopStep(task, position, next, table, limit, outcome) ==
    /\ running \in {"none", ToString(task)}
    /\ tasks[task].pc = position
    /\ token_state' = table
    /\ LET call == SequentialCall(serial, tasks[task].op, now)
       IN  /\ tasks' = [tasks EXCEPT ![task] =
                          [@ EXCEPT !.pc = next, !.limit = limit, !.outcome = outcome,
                                    !.expected = IF next = "done" THEN call.outcome
                                                 ELSE @]]
           /\ serial' = IF next = "done" THEN call.table ELSE serial
    /\ running' = IF Suspends(next) THEN "none" ELSE ToString(task)
    /\ UNCHANGED <<now, route_config, ret, pc, req, claims, resp, trace, events>>

\* state = self._token_state[token_hash]
LoopLookup(task) ==
    LoopStep(task, "lookup",
             IF tasks[task].op = "record_malformed_request" THEN "count" ELSE "clean",
             Touch(token_state, LoopIdentity, now), 0, "")

\* self._clean_old_requests(state)
LoopClean(task) ==
    LoopStep(task, "clean",
             IF tasks[task].op = "check_rate_limit" THEN "decay" ELSE "limit",
             [token_state EXCEPT ![LoopIdentity] = _clean_old_requests(@, now)], 0, "")

\* self._maybe_decay_penalty(state)
LoopDecay(task) ==
    LoopStep(task, "decay", "limit",
             [token_state EXCEPT ![LoopIdentity] = _maybe_decay_penalty(@, now)], 0, "")

\* effective_limit = self._get_effective_limit(token_hash, route)
LoopLimit(task) ==
    LoopStep(task, "limit",
             IF tasks[task].op = "check_rate_limit" THEN "compare" ELSE "return",
             token_state,
             _get_effective_limit(token_state[LoopIdentity], route_config, LoopRoute), "")

\* if len(state.requests) >= effective_limit: log and raise
LoopCompare(task) ==
    /\ tasks[task].pc = "compare"
    /\ IF Len(token_state[LoopIdentity].requests) >= tasks[task].limit
       THEN LoopStep(task, "compare", "done", token_state, tasks[task].limit, "rejected")
       ELSE LoopStep(task, "compare", "append", token_state, tasks[task].limit, "")

\* state.requests.append(time.time())
LoopAppend(task) ==
    LoopStep(task, "append", "done",
             [token_state EXCEPT ![LoopIdentity].requests = Append(@, now)],
             tasks[task].limit, "admitted")

\* return max(0, effective_limit - len(state.requests))
LoopReturn(task) ==
    LoopStep(task, "return", "done", token_state, tasks[task].limit,
             ToString(Max(0, tasks[task].limit
                             - Len(token_state[LoopIdentity].requests))))

\* state.malformed_count += 1
LoopCount(task) ==
    LoopStep(task, "count", "penalty",
             [token_state EXCEPT ![LoopIdentity].malformed_count = @ + 1], 0, "")

\* state.penalty_multiplier *= MALFORMED_PENALTY_FACTOR, floored at 0.1, and logged
LoopPenalty(task) ==
    LoopStep(task, "penalty", "block",
             [token_state EXCEPT ![LoopIdentity].penalty_multiplier =
                 RMax(PENALTY_FLOOR, RMul(@, MALFORMED_PENALTY_FACTOR))], 0, "")

\* if state.malformed_count >= MAX_MALFORMED_BEFORE_BLOCK: raise
LoopBlock(task) ==
    LoopStep(task, "block", "done", token_state, 0,
             IF token_state[LoopIdentity].malformed_count >= MAX_MALFORMED_BEFORE_BLOCK
             THEN "blocked" ELSE "recorded")

LoopNext ==
    \E task \in Tasks :
        \/ LoopLookup(task)
        \/ LoopClean(task)
        \/ LoopDecay(task)
        \/ LoopLimit(task)
        \/ LoopCompare(task)
        \/ LoopAppend(task)
        \/ LoopReturn(task)
        \/ LoopCount(task)
        \/ LoopPenalty(task)
        \/ LoopBlock(task)

SpecLoop == LoopInit /\ [][LoopNext]_vars

(***************************************************************************)
(* One window, several routes: an identity that has been charged some      *)
(* malformed requests calls /metrics, again and again, and then turns to   *)
(* one other route and stays on it.  All calls fall in one window.  The    *)
(* route table is one of those of the burst above.                         *)
(***************************************************************************)
SharedFirstRoute == "/metrics"

SharedInit ==
    /\ now = FirstInstant
    /\ token_state \in { AfterMalformed(<<>>, "h1", k, FirstInstant) : k \in 0..MaxMalformed }
    /\ route_config \in BurstConfigs
    /\ ret = NoCall
    /\ GateIdle

SharedCheck(h, route) ==
    /\ ret.route \in {"", SharedFirstRoute, route}
    /\ LET r == CheckRateLimit(token_state, route_config, h, route, now)
       IN  /\ Len(r.table[h].requests) <= MaxRequests + 1
           /\ token_state' = r.table
           /\ ret' = [op |-> "check_rate_limit", token_hash |-> h, route |-> route,
                      exc |-> r.exc, returns |-> {}, log |-> r.log]
    /\ UNCHANGED <<now, route_config>>
    /\ UNCHANGED gate_vars

SharedNext == \E h \in TokenHashes, route \in Routes : SharedCheck(h, route)

SpecShared == SharedInit /\ [][SharedNext]_vars

(***************************************************************************)
(* Properties.                                                             *)
(***************************************************************************)
\* the record an operation on h starts from: the stored one, or a new one
StateOf(h) == Touch(token_state, h, now)[h]

BlockedDetail == "Temporarily blocked due to repeated malformed requests"

\* C1: once malformed_count has reached the block threshold and no decay is
\* due, every check for that identity is rejected with 429, whatever its count
\* of requests in the window.
C1_BlockedIdentityIsRejected ==
    [][\A h \in TokenHashes, route \in Routes :
        ( /\ check_rate_limit(h, route)
          /\ StateOf(h).malformed_count >= 5
          /\ now - StateOf(h).last_reset < 600 )
        => ( /\ ret'.exc.raised
             /\ ret'.exc.status_code = 429 )]_vars

\* the number of consecutive calls a clean identity is admitted for on a route
C2_Expected(route) ==
    IF route \in DOMAIN route_config
    THEN LET sum == route_config[route].requests_per_minute
                    + route_config[route].burst_allowance
         IN  IF sum < 100 THEN sum ELSE 100
    ELSE 70

C3_RecordMalformedPenaltyAndBlock ==
    [][\A h \in TokenHashes :
        record_malformed_request(h) =>
            LET before == StateOf(h)
                after == token_state'[h]
                m == before.penalty_multiplier
                m2 == after.penalty_multiplier
            IN  /\ after.malformed_count = before.malformed_count + 1
                /\ IF 10 * m[1] <= 2 * m[2]
                   THEN m2[1] = 1 /\ m2[2] = 10
                   ELSE m2[1] * 2 * m[2] = m[1] * m2[2]
                /\ ret'.exc.raised <=> after.malformed_count >= 5
                /\ ret'.exc.raised =>
                     /\ ret'.exc.status_code = 429
                     /\ ret'.exc.detail = BlockedDetail]_vars

C3_Witness ==
    /\ ret.op = "record_malformed_request"
    /\ ret.exc.raised
    /\ token_state[ret.token_hash].malformed_count = 5
    /\ token_state[ret.token_hash].penalty_multiplier[1] = 1
    /\ token_state[ret.token_hash].penalty_multiplier[2] = 10

\* C4: scope_guard passes exactly when every required scope is among the granted
\* ones; otherwise it answers 403 and reports required minus granted as missing.
\* admin:users alone does not satisfy read:users.
C4_ExactMembershipNoInheritance ==
    trace = <<"scope_guard">> =>
        LET granted == (CHOOSE c \in claims : TRUE).scopes
            ev == events[1]
            passed == ev.event = "authz.success"
            required == IF passed THEN ev.data.scopes_used ELSE ev.data.required_scopes
        IN  /\ passed <=> required \subseteq granted
            /\ passed => resp = {} /\ pc = "request_validation"
            /\ ~passed =>
                 /\ ev.event = "authz.failure"
                 /\ ev.data.missing_scopes = required \ granted
                 /\ pc = "done"
                 /\ \A r \in resp : r.status_code = 403
            /\ (granted = {"admin:users"} /\ required = {"read:users"}) =>
                 ~passed /\ ev.data.missing_scopes = {"read:users"}
            /\ (\E x \in {"metrics", "users"} :
                  /\ ("write:" \o x) \in required \/ ("admin:" \o x) \in required
                  /\ granted \subseteq {"read:metrics", "read:users"}) => ~passed

C4_Witness ==
    /\ trace = <<"scope_guard">>
    /\ (CHOOSE c \in claims : TRUE).scopes = {"admin:users"}
    /\ events[1].event = "authz.failure"
    /\ events[1].data.required_scopes = {"read:users"}
    /\ events[1].data.missing_scopes = {"read:users"}
    /\ \E r \in resp : r.status_code = 403

\* the token of the request in flight
RequestToken == CHOOSE c \in req.credentials : TRUE

\* C5: a token whose exp lies strictly in the past is refused as expired
\* (reason expired_token, "Token expired"), whatever its other claims.
C5_ExpiredTokenYieldsExpired ==
    ( /\ pc # "get_current_token"
      /\ req.credentials # {}
      /\ RequestToken.signature_valid
      /\ RequestToken.exp # {}
      /\ \A e \in RequestToken.exp : e < now )
    => ( /\ events[1].event = "auth.failure"
         /\ events[1].reason = "expired_token"
         /\ \A r \in resp : r.status_code = 401 /\ r.detail = "Token expired" )

\* C6, for a request whose body was decoded: absent credentials are refused as
\* missing and a token with a valid signature but another audience as invalid,
\* both with 401 and before any later stage has run.
C6_MissingAndWrongAudience ==
    pc # "get_current_token" =>
        /\ req.credentials = {} =>
             /\ pc = "done"
             /\ trace = <<"get_current_token">>
             /\ events[1].event = "auth.failure"
             /\ events[1].reason = "missing_token"
             /\ \A r \in resp : r.status_code = 401
                                /\ r.detail = "Missing authentication token"
        /\ ( /\ req.credentials # {}
             /\ RequestToken.signature_valid
             /\ RequestToken.aud # "internal-services" ) =>
             /\ pc = "done"
             /\ trace = <<"get_current_token">>
             /\ events[1].event = "auth.failure"
             /\ events[1].reason = "invalid_token"
             /\ \A r \in resp : r.status_code = 401
             /\ \A i \in 1..Len(events) :
                  events[i].event \in {"auth.failure", "request.complete"}

C6_Witness ==
    /\ pc = "done"
    /\ req.credentials # {}
    /\ RequestToken.signature_valid
    /\ RequestToken.aud = "other-audience"
    /\ RequestToken.iss = "security-aware-api"
    /\ RequestToken.exp = {LastInstant + 3600}
    /\ _hash_token(RequestToken) \in DOMAIN token_state
    /\ token_state[_hash_token(RequestToken)].malformed_count >= 5
    /\ events[1].reason = "invalid_token"
    /\ \E r \in resp : r.status_code = 401

\* C6: every finished request without credentials was answered 401 "Missing
\* authentication token", and every finished request whose token has a valid
\* signature but another audience was answered 401, with no authorization or
\* rate-limit event and no change of a rate-limit record on its way.
C6_AuthenticationDecidedFirst ==
    pc = "done" =>
        /\ req.credentials = {} =>
             \A r \in resp : r.status_code = 401
                              /\ r.detail = "Missing authentication token"
        /\ ( /\ req.credentials # {}
             /\ RequestToken.signature_valid
             /\ RequestToken.aud # "internal-services" ) =>
             /\ \A r \in resp : r.status_code = 401
             /\ \A i \in 1..Len(events) :
                  events[i].event \notin {"authz.failure", "rate_limit.exceeded",
                                          "rate_limit.penalty"}

IsPrefix(s, t) == Len(s) <= Len(t) /\ \A i \in 1..Len(s) : s[i] = t[i]

C8_MalformedNeverRaisesLimit ==
    [][\A h \in TokenHashes, route \in Routes :
        record_malformed_request(h) =>
            LET before == _get_effective_limit(StateOf(h), route_config, route)
                after == _get_effective_limit(token_state'[h], route_config', route)
            IN  /\ after <= before
                /\ (StateOf(h).penalty_multiplier = <<1, 1, 0>> /\ before >= 2)
                     => after < before]_vars

C8_Witness ==
    /\ ret.op = "record_malformed_request"
    /\ token_state[ret.token_hash].malformed_count = 1
    /\ _get_effective_limit(token_state[ret.token_hash], route_config, "/test") = 35

\* C9 as stated: two get_remaining calls for one identity and route with no
\* other call between them return the same value.
C9_RepeatedReadSameValue ==
    [][\A h \in TokenHashes, route \in Routes :
        ( /\ ret.op = "get_remaining"
          /\ ret.token_hash = h
          /\ ret.route = route
          /\ get_remaining(h, route) )
        => (ret'.returns = ret.returns)]_vars

\* C9 amended: ... provided no timestamp of the identity has left the window
\* between the two calls.
C9_RepeatedReadSameValueInWindow ==
    [][\A h \in TokenHashes, route \in Routes :
        ( /\ ret.op = "get_remaining"
          /\ ret.token_hash = h
          /\ ret.route = route
          /\ get_remaining(h, route)
          /\ \A i \in 1..Len(token_state[h].requests) :
               token_state[h].requests[i] > now - 60 )
        => (ret'.returns = ret.returns)]_vars

C9_Witness ==
    /\ ret.op = "get_remaining"
    /\ ret.route = "/users"
    /\ Len(token_state[ret.token_hash].requests) = 2
    /\ token_state[ret.token_hash].requests[1] < now
    /\ ret.returns = {33}

\* C10: check, record_malformed_request and get_remaining each apply the decay
\* step first when the decay interval has elapsed since the identity's last
\* decay: the multiplier gains 0.25 (at most 1.0), malformed_count loses 1 (at
\* least 0) and the last-decay time becomes the time of the call.
C10_DecayOnEveryObservation ==
    [][\A h \in TokenHashes, route \in Routes :
        ( /\ h \in DOMAIN token_state
          /\ now - token_state[h].last_reset >= 600
          /\ \/ check_rate_limit(h, route)
             \/ get_remaining(h, route)
             \/ record_malformed_request(h) )
        => LET m == token_state[h].penalty_multiplier
               decayed == IF 4 * m[1] + m[2] >= 4 * m[2]
                          THEN <<1, 1>> ELSE Rat(4 * m[1] + m[2], 4 * m[2])
               count == IF token_state[h].malformed_count > 0
                        THEN token_state[h].malformed_count - 1 ELSE 0
           IN  /\ token_state'[h].last_reset = now
               /\ ret'.op # "record_malformed_request" =>
                    /\ token_state'[h].penalty_multiplier[1] = decayed[1]
                    /\ token_state'[h].penalty_multiplier[2] = decayed[2]
                    /\ token_state'[h].malformed_count = count
               /\ ret'.op = "record_malformed_request" =>
                    token_state'[h].malformed_count = count + 1]_vars

\* C11: a fault while the gate computes its decision -- here a token whose
\* signature, expiry, issuer and audience verify but whose scopes claim is not
\* a list -- is refused as invalid: 401, reason invalid_token, and no later
\* stage runs.
C11_FaultYieldsInvalid ==
    ( /\ pc # "get_current_token"
      /\ req.credentials # {}
      /\ RequestToken.signature_valid
      /\ RequestToken.scopes_type # "list"
      /\ RequestToken.exp = {LastInstant + 3600} )
    => ( /\ pc = "done"
         /\ trace = <<"get_current_token">>
         /\ Len(events) >= 1
         /\ events[1].event = "auth.failure"
         /\ events[1].reason = "invalid_token"
         /\ \A r \in resp : r.status_code = 401 )

\* C12: concurrent check / record_malformed_request / get_remaining calls for
\* one identity behave as the same calls made one after another: whenever no
\* call is in progress the rate table is the one the completed calls give when
\* run whole in their order of completion, every call returns what it returns
\* in that order, and a check appends its timestamp only while the identity has
\* fewer timestamps in the window than its effective limit.
C12_SerializedPerIdentity ==
    /\ running = "none" => token_state = serial
    /\ \A task \in DOMAIN tasks :
         /\ tasks[task].pc = "done" => tasks[task].outcome = tasks[task].expected
         /\ tasks[task].pc = "append" =>
              Len(token_state[LoopIdentity].requests)
                < _get_effective_limit(token_state[LoopIdentity], route_config, LoopRoute)

C12_Witness ==
    /\ DOMAIN tasks # {}
    /\ \A task \in DOMAIN tasks : tasks[task].pc = "done"
    /\ \E a, b \in DOMAIN tasks :
         /\ tasks[a].op = "check_rate_limit" /\ tasks[a].outcome = "admitted"
         /\ tasks[b].op = "check_rate_limit" /\ tasks[b].outcome = "rejected"
    /\ token_state[LoopIdentity].malformed_count = 4
    /\ Len(token_state[LoopIdentity].requests) = 3

\* C13: the timestamp check_rate_limit records when it admits a request stays
\* in the identity's window whatever the handler then does: after a handler
\* that ran its logic -- answering 404 as well as 200 or 201 -- the rate table
\* is exactly the one check_rate_limit left, with one timestamp more than the
\* identity had in the window, the last of them the time of the request.
C13_ChargeIsNotRolledBack ==
    [][\A exists \in BOOLEAN :
        ( /\ handler(exists)
          /\ trace'[Len(trace')] = "handler_logic" )
        => LET h == (CHOOSE c \in claims : TRUE).token_hash
               route == RateRoute(req.op)
               charged == CheckRateLimit(token_state, route_config, h, route, now)
               window == _clean_old_requests(Touch(token_state, h, now)[h], now)
           IN  /\ ~charged.exc.raised
               /\ token_state' = charged.table
               /\ Len(token_state'[h].requests) = Len(window.requests) + 1
               /\ token_state'[h].requests[Len(token_state'[h].requests)] = now]_vars

C13_Witness ==
    /\ pc = "done"
    /\ req.op = "get_user"
    /\ trace = <<"get_current_token", "scope_guard", "request_validation",
                 "check_rate_limit", "handler_logic">>
    /\ \E r \in resp : r.status_code = 404 /\ r.detail = "User not found"
    /\ \E c \in claims :
         /\ Len(token_state[c.token_hash].requests) = 3
         /\ token_state[c.token_hash].requests[3] = now

\* C14: after reset_rate_limiter the rate table holds no identity and the
\* route limits are those of startup, so the next call for any identity,
\* whatever it had recorded before, finds a clean record: a check is admitted
\* and leaves one timestamp, multiplier 1.0 and malformed_count 0; a malformed
\* event is the identity's first; get_remaining returns the full startup limit
\* of the route (35 for /users, 70 for the unconfigured /test).
C14_ResetLeavesNoState ==
    /\ [](ret.op = "reset_rate_limiter" =>
            /\ DOMAIN token_state = {}
            /\ route_config = StartupRouteConfig)
    /\ [][\A h \in TokenHashes, route \in AdminRoutes :
            /\ (ret.op = "reset_rate_limiter" /\ check_rate_limit(h, route)) =>
                 /\ ~ret'.exc.raised
                 /\ token_state'[h] = [requests |-> <<now>>,
                                       penalty_multiplier |-> <<1, 1, 0>>,
                                       malformed_count |-> 0,
                                       last_reset |-> now]
            /\ (ret.op = "reset_rate_limiter" /\ record_malformed_request(h)) =>
                 /\ ~ret'.exc.raised
                 /\ token_state'[h].malformed_count = 1
                 /\ token_state'[h].penalty_multiplier = <<1, 2, 0>>
                 /\ token_state'[h].requests = <<>>
            /\ (ret.op = "reset_rate_limiter" /\ get_remaining(h, route)) =>
                 /\ ret'.returns = {IF route = "/users" THEN 35 ELSE 70}
                 /\ token_state'[h].requests = <<>>
                 /\ token_state'[h].malformed_count = 0]_vars

\* a reset of a limiter that held a blocked identity with requests recorded,
\* on a route table that had been reconfigured or not
C14_Witness ==
    /\ ret.op = "reset_rate_limiter"
    /\ ret.dropped # {}
    /\ DOMAIN token_state = {}
    /\ "/test" \notin DOMAIN route_config

\* the names of the headers of a response
HeaderNames(r) == {hd[1] : hd \in r.headers}

\* C15: every rejection carries its status and headers: 401 with a
\* WWW-Authenticate challenge for an authentication failure, 403 for an
\* authorization failure, and 429 with Retry-After and the quota headers for
\* every rate-limit rejection, quota exceeded and blocked alike; for quota
\* exceeded Retry-After is the window length and the remaining quota is 0.
C15_RejectionsCarryStatusAndHeaders ==
    \A r \in resp :
        /\ (\E i \in 1..Len(events) : events[i].event = "auth.failure") =>
             /\ r.status_code = 401
             /\ "WWW-Authenticate" \in HeaderNames(r)
        /\ (\E i \in 1..Len(events) : events[i].event = "authz.failure") =>
             r.status_code = 403
        /\ (\E i \in 1..Len(events) : events[i].event = "rate_limit.exceeded") =>
             /\ r.status_code = 429
             /\ \E hd \in r.headers : hd[1] = "Retry-After" /\ hd[2] = "60"
             /\ \E hd \in r.headers : hd[1] = "X-RateLimit-Remaining" /\ hd[2] = "0"
             /\ "X-RateLimit-Limit" \in HeaderNames(r)
        /\ r.detail = BlockedDetail =>
             /\ r.status_code = 429
             /\ {"Retry-After", "X-RateLimit-Limit", "X-RateLimit-Remaining"}
                  \subseteq HeaderNames(r)

\* C16: when scope_guard refuses a request, the required, provided and
\* missing scope sets go to the security logger only: the 403 response carries
\* none of them, in its detail or in its headers.
C16_ScopeSetsStayInTheLog ==
    ( /\ trace = <<"scope_guard">>
      /\ events[1].event = "authz.failure" )
    => \A r \in resp :
         /\ r.status_code = 403
         /\ r.detail = "Insufficient scope"
         /\ \A hd \in r.headers :
              hd[2][2] \notin {events[1].data.required_scopes,
                               events[1].data.provided_scopes,
                               events[1].data.missing_scopes}

\* the fingerprint the request's events are logged under
RequestFingerprint ==
    IF req.credentials = {} THEN "<no-token>" ELSE _hash_token(RequestToken)

\* the event that reports a rejection, told by the detail of the response
ReportsRejection(ev, detail) ==
    CASE detail = "Missing authentication token" ->
           ev.event = "auth.failure" /\ ev.reason = "missing_token"
      [] detail = "Invalid or expired token" ->
           ev.event = "auth.failure" /\ ev.reason = "invalid_token"
      [] detail = "Token expired" ->
           ev.event = "auth.failure" /\ ev.reason = "expired_token"
      [] detail = "Insufficient scope" ->
           ev.event = "authz.failure" /\ ev.abuse_class = "ESCALATION_ATTEMPT"
      [] detail = "Rate limit exceeded" ->
           ev.event = "rate_limit.exceeded" /\ ev.abuse_class = "RATE_EXCEEDED"
      [] detail = BlockedDetail ->
           /\ ev.event = "rate_limit.penalty"
           /\ ev.abuse_class = "MALFORMED"
           /\ ev.reason = "validation_failure"
      [] OTHER -> FALSE

C18_FingerprintIsTheOnlyDerivedField ==
    \A i \in 1..Len(events) :
        DOMAIN events[i].data
          \cap {"subject", "scope_count", "provided_scopes", "missing_scopes"} = {}

\* the fields the events carry beside the fingerprint
LoggedFields ==
    {"error_type", "subject", "scope_count", "required_scopes", "provided_scopes",
     "missing_scopes", "scopes_used", "route", "limit", "window_seconds",
     "penalty_multiplier", "status_code"}

\* C18 amended: the token string itself never reaches the security logger.
\* Every event of a request with a credential is logged under the same
\* fingerprint, the digest of the token, wherever it was computed
\* (get_current_token, validation_exception_handler, the logging middleware);
\* beside it the events carry only claims decoded from the token (subject,
\* number of scopes, the scope sets of an authorization failure) and data of
\* the request, never a field holding the token.
C18_TokenStringNeverLogged ==
    \A i \in 1..Len(events) :
        /\ DOMAIN events[i].data \subseteq LoggedFields
        /\ req.credentials = {} => events[i].token_hash \in {"<no-token>", "<anonymous>"}
        /\ req.credentials # {} =>
             /\ events[i].token_hash[1] = "sha256"
             /\ events[i].token_hash = events[1].token_hash
             /\ \A h \in DOMAIN token_state : h = events[i].token_hash

C18_Witness ==
    /\ pc = "done"
    /\ req.credentials # {}
    /\ Len(events) = 3
    /\ events[1].event = "auth.success"
    /\ events[1].data.subject = "test-service"
    /\ events[2].event = "authz.failure"
    /\ events[2].data.provided_scopes = {"read:metrics"}
    /\ events[3].event = "request.complete"
    /\ events[3].token_hash = events[1].token_hash

\* C19: a logger call that fails leaves every gate decision as it is with a
\* working logger: the stage in which it fails hands on, or answers with,
\* what it hands on or answers with when the call succeeds, and leaves the
\* rate table the same.
C19_SinkFailureKeepsDecision ==
    [][/\ \A subsecond \in BOOLEAN :
            sink_fails_in_get_current_token(subsecond) =>
                LET working == GetCurrentToken(req.credentials, now, subsecond)
                IN  IF working.exc.raised
                    THEN resp' = {HTTPExceptionResponse(working.exc)}
                    ELSE pc' = "scope_guard" /\ claims' = working.payload
       /\ sink_fails_in_scope_guard =>
            LET working == ScopeGuard(RequiredScopes(req.op), CHOOSE c \in claims : TRUE)
            IN  IF working.exc.raised
                THEN resp' = {HTTPExceptionResponse(working.exc)}
                ELSE pc' = "request_validation"
       /\ \A failing_call \in {"log_validation_failure", "log_rate_limit_penalty"} :
            sink_fails_in_validation_exception_handler(failing_call) =>
                LET working == ValidationExceptionHandler(token_state, req.credentials,
                                                          RateRoute(req.op), now)
                IN  resp' = {working.response} /\ token_state' = working.table
       /\ \A exists \in BOOLEAN :
            sink_fails_in_handler(exists) =>
                LET working == Handler(token_state, route_config, req.op,
                                       CHOOSE c \in claims : TRUE, exists, now)
                IN  resp' = {working.response} /\ token_state' = working.table]_vars

\* the base limit of a route: min(100, requests_per_minute + burst_allowance) of
\* its configuration, or of the defaults 60 and 10 when it has none
BaseLimitOf(route) ==
    LET rpm == IF route \in DOMAIN route_config
               THEN route_config[route].requests_per_minute ELSE 60
        burst == IF route \in DOMAIN route_config
                 THEN route_config[route].burst_allowance ELSE 10
    IN  IF rpm + burst <= 100 THEN rpm + burst ELSE 100

\* max(1, floor(base * multiplier)), the multiplier read as the number the
\* penalty arithmetic gives: 1.0 halved k times, raised by 0.25, and so on
FormulaOnNominal(h, route) ==
    LET m == token_state[h].penalty_multiplier
        product == (BaseLimitOf(route) * m[1]) \div m[2]
    IN  IF product >= 1 THEN product ELSE 1

\* max(1, floor(base * multiplier)), the multiplier read as the value of the
\* double the identity's record holds
FormulaOnStored(h, route) ==
    LET m == token_state[h].penalty_multiplier
        p == BaseLimitOf(route) * m[1]
        product == IF p % m[2] = 0 /\ m[3] < 0 THEN (p \div m[2]) - 1 ELSE p \div m[2]
    IN  IF product >= 1 THEN product ELSE 1

LimitAgrees(h, route, formula) ==
    LET limit == _get_effective_limit(token_state[h], route_config, route)
    IN  /\ limit = formula
        /\ limit >= 1
        /\ limit <= 100
        /\ ( /\ ret.op = "get_remaining"
              /\ ret.token_hash = h
              /\ ret.route = route )
            => ret.returns = {IF formula >= Len(token_state[h].requests)
                              THEN formula - Len(token_state[h].requests) ELSE 0}

\* C20: for every identity record and every route, configured or not, the
\* limit the limiter enforces and reports is
\* max(1, floor(min(100, base + burst) * multiplier)), at least 1 and at
\* most 100 -- with the record's multiplier read either as its nominal value
\* or as the value of the stored double, the same reading for every route.
C20_EffectiveLimitIsFloorOfProduct ==
    \A h \in DOMAIN token_state :
        \/ \A route \in Routes : LimitAgrees(h, route, FormulaOnNominal(h, route))
        \/ \A route \in Routes : LimitAgrees(h, route, FormulaOnStored(h, route))

\* the part of C20 that holds: the limit is within 1..100 for every record and
\* route
LimitWithinBounds ==
    \A h \in DOMAIN token_state, route \in Routes :
        LET limit == _get_effective_limit(token_state[h], route_config, route)
        IN  limit >= 1 /\ limit <= 100

\* the double m is at least 0.1 and at most 1.0
InPenaltyRange(m) ==
    /\ 10 * m[1] > m[2] \/ (10 * m[1] = m[2] /\ m[3] >= 0)
    /\ m[1] < m[2] \/ (m[1] = m[2] /\ m[3] <= 0)

\* C21: in every reachable state each identity's penalty multiplier lies in
\* [0.1, 1.0] and its malformed-event counter is at least 0.
C21_MultiplierAndCountInRange ==
    \A h \in DOMAIN token_state :
        /\ InPenaltyRange(token_state[h].penalty_multiplier)
        /\ token_state[h].malformed_count >= 0

\* the floor was binding: penalties went on after the multiplier had reached
\* 0.1, and it stayed there
C21_Witness ==
    /\ ret.op = "record_malformed_request"
    /\ token_state[ret.token_hash].malformed_count > MAX_MALFORMED_BEFORE_BLOCK
    /\ token_state[ret.token_hash].penalty_multiplier = PENALTY_FLOOR

\* the double x is below the double y
RLess(x, y) == ~RLeq(y, x)

\* C22: in a call of check_rate_limit, record_malformed_request, get_remaining
\* or configure_route, an identity's multiplier rises or its malformed_count
\* falls only by a decay step: the decay interval has elapsed since the
\* identity's last decay, the call is made on that identity and it sets the
\* last-decay time to the time of the call.
C22_RecoveryOnlyThroughDecay ==
    [][ret'.op \in {"check_rate_limit", "record_malformed_request",
                    "get_remaining", "configure_route"} =>
        \A h \in DOMAIN token_state :
            ( \/ RLess(token_state[h].penalty_multiplier,
                       token_state'[h].penalty_multiplier)
              \/ token_state'[h].malformed_count < token_state[h].malformed_count )
            => /\ now - token_state[h].last_reset >= PENALTY_DECAY_MINUTES * 60
               /\ ret'.token_hash = h
               /\ token_state'[h].last_reset = now]_vars

\* a decay step moved a penalised identity back: 0.5 became 0.75 and the one
\* malformed event on its record was forgiven
C22_Witness ==
    /\ ret.op = "check_rate_limit"
    /\ token_state[ret.token_hash].penalty_multiplier = <<3, 4, 0>>
    /\ token_state[ret.token_hash].malformed_count = 0
    /\ token_state[ret.token_hash].last_reset = now

\* the nominal multiplier one decay step after m: m + 0.25, at most 1.0
OneStepUp(m) ==
    IF 4 * m[1] + m[2] >= 4 * m[2] THEN <<1, 1>> ELSE Rat(4 * m[1] + m[2], 4 * m[2])

\* C23: decay is lazy and single-step.  The rate table does not change while
\* time passes with no call made.  An identity's last-decay time changes only
\* in a call made on that identity with the decay interval elapsed, and the
\* call applies exactly one step, however long ago the last decay was:
\* multiplier + 0.25 (at most 1.0), malformed_count - 1 (at least 0), last-decay
\* time := now.  A check or get_remaining made before the interval has
\* elapsed leaves all three as they were.
C23_DecayIsLazyAndSingleStep ==
    [][ /\ now' # now => token_state' = token_state
        /\ \A h \in DOMAIN token_state :
              LET st == token_state[h]
                  after == token_state'[h]
                  due == now - st.last_reset >= 600
              IN  /\ after.last_reset # st.last_reset =>
                        /\ due
                        /\ ret'.token_hash = h
                        /\ after.last_reset = now
                        /\ after.penalty_multiplier[1] = OneStepUp(st.penalty_multiplier)[1]
                        /\ after.penalty_multiplier[2] = OneStepUp(st.penalty_multiplier)[2]
                        /\ after.malformed_count =
                             (IF st.malformed_count >= 1 THEN st.malformed_count - 1 ELSE 0)
                  /\ ( /\ ret'.op \in {"check_rate_limit", "get_remaining"}
                        /\ ret'.token_hash = h
                        /\ ~due )
                     => /\ after.penalty_multiplier = st.penalty_multiplier
                        /\ after.malformed_count = st.malformed_count
                        /\ after.last_reset = st.last_reset ]_vars

\* a check made two decay intervals or more after the clock started applied
\* one step to an identity penalised twice: 0.25 became 0.5, and one of its two
\* malformed events is still counted
C23_Witness ==
    /\ ret.op = "check_rate_limit"
    /\ now >= FirstInstant + 2 * DecaySeconds
    /\ token_state[ret.token_hash].last_reset = now
    /\ token_state[ret.token_hash].penalty_multiplier = <<1, 2, 0>>
    /\ token_state[ret.token_hash].malformed_count = 1

\* C24: get_remaining(identity, route) returns max(0, effective limit - count
\* in the window), limit and count being those a check at the same instant
\* works with after its pruning and decay; it adds no timestamp and raises
\* nothing; it returns 0 exactly when a check for the same identity and route
\* at that instant would be refused with "Rate limit exceeded".
C24_RemainingAgreesWithCheck ==
    [][\A h \in TokenHashes, route \in Routes :
        get_remaining(h, route) =>
            LET checked == CheckRateLimit(token_state, route_config, h, route, now)
                seen == _maybe_decay_penalty(_clean_old_requests(StateOf(h), now), now)
                limit == _get_effective_limit(seen, route_config, route)
            IN  /\ ret'.returns = {IF limit >= Len(seen.requests)
                                   THEN limit - Len(seen.requests) ELSE 0}
                /\ token_state'[h].requests = seen.requests
                /\ ~ret'.exc.raised
                /\ ret'.returns = {0} <=> checked.exc.raised]_vars

Blocked(h) ==
    /\ h \in DOMAIN token_state
    /\ token_state[h].malformed_count >= MAX_MALFORMED_BEFORE_BLOCK

Recovered(h) ==
    /\ h \in DOMAIN token_state
    /\ token_state[h].malformed_count < MAX_MALFORMED_BEFORE_BLOCK
    /\ token_state[h].penalty_multiplier = PENALTY_NONE

\* C25: a blocked identity that records no further malformed events and keeps
\* being observed as time advances eventually has its malformed_count below
\* the block threshold and its multiplier back at 1.0.
C25_BlockedEventuallyRecovers ==
    \A h \in TokenHashes : Blocked(h) ~> Recovered(h)

\* the rate table with every identity but h left out
OwnTable(h) == [g \in DOMAIN token_state \cap {h} |-> token_state[g]]

\* every record but h's is as it was, and no record but h's was created
OthersUntouched(h) ==
    /\ DOMAIN token_state' \subseteq DOMAIN token_state \cup {h}
    /\ \A g \in DOMAIN token_state \ {h} : token_state'[g] = token_state[g]

\* C26: identities are independent.  A check, record_malformed_request or
\* get_remaining on one identity leaves every other identity's record as it
\* was, and its outcome and the record it leaves are those the same call gives
\* on a table that holds no other identity.
C26_IdentitiesAreIndependent ==
    [][\A h \in PairHashes :
        /\ check_rate_limit(h, PairRoute) =>
              LET alone == CheckRateLimit(OwnTable(h), route_config, h, PairRoute, now)
              IN  /\ OthersUntouched(h)
                  /\ ret'.exc = alone.exc
                  /\ token_state'[h] = alone.table[h]
        /\ record_malformed_request(h) =>
              LET alone == RecordMalformedRequest(OwnTable(h), h, "test_reason", now)
              IN  /\ OthersUntouched(h)
                  /\ ret'.exc = alone.exc
                  /\ token_state'[h] = alone.table[h]
        /\ get_remaining(h, PairRoute) =>
              LET alone == GetRemaining(OwnTable(h), route_config, h, PairRoute, now)
              IN  /\ OthersUntouched(h)
                  /\ ret'.returns = {alone.value}
                  /\ token_state'[h] = alone.table[h]]_vars

\* one identity is penalised and at its limit while the other, first seen
\* after it, is admitted with a clean record
C26_Witness ==
    /\ ret.op = "check_rate_limit"
    /\ ret.token_hash = "h2"
    /\ ~ret.exc.raised
    /\ DOMAIN token_state = PairHashes
    /\ token_state["h1"].malformed_count = 1
    /\ token_state["h1"].requests = <<now>>
    /\ token_state["h2"].requests = <<now>>
    /\ token_state["h2"].penalty_multiplier = PENALTY_NONE

\* a check of the record st on route at the clock reading u is admitted
Admitted(st, h, route, u) ==
    ~CheckRateLimit((h :> st), route_config, h, route, u).exc.raised

\* C27: a check refused with "Rate limit exceeded" records no timestamp.  The
\* record it leaves is the one before the call with the expired timestamps
\* pruned and the decay step applied if it was due, and at every later clock
\* reading and on every route a check that the record before the call would
\* have passed, the record after the call passes too.
C27_RefusedCheckRecordsNothing ==
    [][\A h \in TokenHashes, route \in Routes :
        (check_rate_limit(h, route) /\ ret'.exc.raised) =>
            LET before == StateOf(h)
                after == token_state'[h]
            IN  /\ after = _maybe_decay_penalty(_clean_old_requests(before, now), now)
                /\ after.requests = _clean_old_requests(before, now).requests
                /\ after.malformed_count <= before.malformed_count
                /\ \A u \in Instants, other \in Routes :
                      (u >= now /\ Admitted(before, h, other, u))
                          => Admitted(after, h, other, u)]_vars

\* a check on /users was refused for an identity at multiplier 0.1 with three
\* requests in its window, and the three are all its record holds
C27_Witness ==
    /\ ret.op = "check_rate_limit"
    /\ ret.exc.raised
    /\ ret.route = "/users"
    /\ Len(token_state[ret.token_hash].requests) = 3
    /\ token_state[ret.token_hash].penalty_multiplier = PENALTY_FLOOR

\* C28: the advertised Retry-After is sufficient.  When a check is refused
\* with "Rate limit exceeded", the record it leaves passes a check on any route
\* at any clock reading one window (60 s) or more later.
C28_RetryAfterIsSufficient ==
    [][\A h \in TokenHashes, route \in Routes :
        (check_rate_limit(h, route) /\ ret'.exc.raised) =>
            /\ <<"Retry-After", "60">> \in ret'.exc.headers
            /\ \A u \in Instants, other \in Routes :
                  u >= now + 60 => Admitted(token_state'[h], h, other, u)]_vars

\* a check was refused at the first clock reading, with every request of the
\* window made at that same reading: the reading one window later is the
\* earliest at which the advice can be followed
C28_Witness ==
    /\ ret.op = "check_rate_limit"
    /\ ret.exc.raised
    /\ now = FirstInstant
    /\ \E u \in Instants : u = now + DEFAULT_WINDOW_SECONDS
    /\ \A i \in 1..Len(token_state[ret.token_hash].requests) :
          token_state[ret.token_hash].requests[i] = now

\* C29: the requests of an identity's window are one count for all routes.  A
\* check is refused exactly when the number of timestamps on the record,
\* whatever routes they were recorded on, has reached the limit of the route
\* called; a check that passes on one route adds one to the count every other
\* route is tested against.
C29_WindowCountIsSharedByRoutes ==
    [][\A h \in TokenHashes, route \in Routes :
        SharedCheck(h, route) =>
            LET N == Len(StateOf(h).requests)
                after == token_state'[h]
            IN  /\ ret'.exc.raised <=>
                      _get_effective_limit(StateOf(h), route_config, route) <= N
                /\ ~ret'.exc.raised => Len(after.requests) = N + 1
                /\ \A other \in Routes :
                      _get_effective_limit(after, route_config, other) <= Len(after.requests)
                          => ~Admitted(after, h, other, now)]_vars

\* /users refuses an identity that never passed a check on it: the record
\* holds more timestamps than the limit of /users admits
C29_Witness ==
    /\ ret.op = "check_rate_limit"
    /\ ret.route = "/users"
    /\ ret.exc.raised
    /\ Len(token_state[ret.token_hash].requests)
         > _get_effective_limit(token_state[ret.token_hash], route_config, "/users")

(***************************************************************************)
(* C30.  A malformed-input penalty is charged only to a fingerprint whose  *)
(* credential passed token validation in the same request: whenever a step *)
(* of a request creates or changes the rate-limit record of a fingerprint, *)
(* get_current_token has returned the claims of that request and the       *)
(* fingerprint is the one in those claims.                                 *)
(***************************************************************************)
RecordChanged(h) ==
    \/ h \in DOMAIN token_state' /\ h \notin DOMAIN token_state
    \/ h \in DOMAIN token_state' /\ h \in DOMAIN token_state
          /\ token_state'[h] # token_state[h]

Fingerprints == {_hash_token(token) : token \in Tokens}

C30_PenaltyOnlyAfterValidation ==
    [][\A h \in Fingerprints :
         RecordChanged(h) => \E c \in claims : c.token_hash = h]_vars

====
